---- MODULE Spec2Model ----
(***************************************************************************)
(* Model of `sevctl ok` (src/src/ok.rs): the dependency-gated probe run of *)
(* cmd(gen, quiet).  A run is a record (the locals of cmd plus its program *)
(* counter); the hardware (CPUID registers) and the operating system       *)
(* (device files, KVM, rlimit) are inputs fixed when the run starts.       *)
(***************************************************************************)
EXTENDS Integers, Sequences, FiniteSets, TLC

VARIABLES hw, os, run, twin

vars == <<hw, os, run, twin>>

(***************************************************************************)
(* Constants of the program                                                *)
(***************************************************************************)
SYS_TEST_LEVEL == 5

LEAF_VENDOR == "0x00000000"
LEAF_BRAND2 == "0x80000002"
LEAF_BRAND3 == "0x80000003"
LEAF_BRAND4 == "0x80000004"
LEAF_SEV == "0x8000001f"

SevGeneration == {"Sev", "Es"}

CORE_CPUID == << [name |-> "AMD CPU", leaf |-> LEAF_VENDOR, level |-> 1] >>

AMD_CPU_DEPENDENT_CPUIDS ==
    << [name |-> "Microcode support", leaf |-> LEAF_BRAND2, level |-> 2] >>

MICROCODE_DEPENDENT_CPUIDS ==
    << [name |-> "AMD SEV", leaf |-> LEAF_SEV, level |-> 3],
       [name |-> "AMD SME", leaf |-> LEAF_SEV, level |-> 3] >>

SEV_SME_DEPENDENT_CPUIDS ==
    << [name |-> "Page flush MSR", leaf |-> LEAF_SEV, level |-> 4],
       [name |-> "Physical address bit reduction", leaf |-> LEAF_SEV, level |-> 4],
       [name |-> "C-bit location in page table entry", leaf |-> LEAF_SEV, level |-> 4],
       [name |-> "Number of encrypted guests supported simultaneously",
        leaf |-> LEAF_SEV, level |-> 4],
       [name |-> "Minimum ASID value for SEV-enabled, SEV-ES disabled guest",
        leaf |-> LEAF_SEV, level |-> 4] >>

SEV_ES_CPUIDS == << [name |-> "AMD SEV-ES", leaf |-> LEAF_SEV, level |-> 4] >>

\* sys_tests of cmd: (function, func_name) pairs, in list order.
sys_tests ==
    << [func |-> "dev_sev_r", func_name |-> "/dev/sev readable"],
       [func |-> "dev_sev_w", func_name |-> "/dev/sev writable"],
       [func |-> "has_kvm_support", func_name |-> "KVM support"],
       [func |-> "sev_enabled_in_kvm", func_name |-> "SEV enablement in KVM"],
       [func |-> "memlock_rlimit", func_name |-> "Memlock resource limit"] >>

\* error::Context::new(msg, Box::new(ErrorKind::InvalidData.into()))
ErrorValue ==
    [context |-> "One or more tests in sevctl-ok reported a failure",
     source |-> "InvalidData"]

NoError == [context |-> "", source |-> ""]

(***************************************************************************)
(* Integer and string helpers (u32 bit operations, str methods)            *)
(***************************************************************************)
RECURSIVE BitAnd(_, _)
BitAnd(a, b) ==
    IF a = 0 \/ b = 0 THEN 0
    ELSE (a % 2) * (b % 2) + 2 * BitAnd(a \div 2, b \div 2)

Shl(a, n) == a * (2 ^ n)

Shr(a, n) == a \div (2 ^ n)

to_uppercase_char(c) ==
    CASE c = "a" -> "A" [] c = "c" -> "C" [] c = "d" -> "D" [] c = "e" -> "E"
      [] c = "m" -> "M" [] c = "n" -> "N" [] c = "p" -> "P" [] c = "r" -> "R"
      [] c = "y" -> "Y" [] c = "z" -> "Z"
      [] OTHER -> c

to_uppercase(s) == [k \in 1..Len(s) |-> to_uppercase_char(s[k])]

contains(s, pat) ==
    \E k \in 1..(Len(s) - Len(pat) + 1) : SubSeq(s, k, k + Len(pat) - 1) = pat

is_whitespace(c) == c \in {" ", "\n", "\t"}

\* positions of s holding a non-whitespace character
non_whitespace(s) == {k \in 1..Len(s) : ~is_whitespace(s[k])}

\* (the one-element sets bind the string and its positions as values)
trim_start(s) ==
    CHOOSE t \in UNION { { IF n = {} THEN <<>>
                           ELSE SubSeq(v, CHOOSE k \in n : \A j \in n : k <= j, Len(v)) :
                           n \in {non_whitespace(v)} } : v \in {s} } : TRUE

trim_end(s) ==
    CHOOSE t \in UNION { { IF n = {} THEN <<>>
                           ELSE SubSeq(v, 1, CHOOSE k \in n : \A j \in n : j <= k) :
                           n \in {non_whitespace(v)} } : v \in {s} } : TRUE

trim(s) == trim_end(trim_start(s))

(***************************************************************************)
(* The hardware: x86_64::__cpuid(leaf) reads the registers of a leaf.      *)
(***************************************************************************)
cpuid_insn(leaf) == hw[leaf]

\* CpuId.func of each table entry; returns (success, Option<String>).
func(cpuid, res) ==
    CASE cpuid.name = "AMD CPU" ->
           LET name == res.ebx \o res.edx \o res.ecx
           IN  [success |-> name = <<"A","u","t","h","e","n","t","i","c","A","M","D">>,
                msg |-> <<>>]
      [] cpuid.name = "Microcode support" ->
           LET regs(l) == LET c == cpuid_insn(l) IN c.eax \o c.ebx \o c.ecx \o c.edx
               bytestr == regs(LEAF_BRAND2) \o regs(LEAF_BRAND3) \o regs(LEAF_BRAND4)
           IN  [success |-> \E cpu_name \in {trim(bytestr)} :
                               \E upper \in {to_uppercase(cpu_name)} :
                                   contains(upper, <<"E","P","Y","C">>),
                msg |-> <<>>]
      [] cpuid.name = "AMD SEV" ->
           [success |-> BitAnd(res.eax, Shl(1, 1)) # 0, msg |-> <<>>]
      [] cpuid.name = "AMD SME" ->
           [success |-> BitAnd(res.eax, 1) # 0, msg |-> <<>>]
      [] cpuid.name = "Page flush MSR" ->
           [success |-> BitAnd(res.eax, Shl(1, 2)) # 0, msg |-> <<>>]
      [] cpuid.name = "Physical address bit reduction" ->
           \* res.ebx & 0b1111_1100_0000 >> 6 : in Rust >> binds tighter than &
           [success |-> TRUE, msg |-> << BitAnd(res.ebx, Shr(4032, 6)) >>]
      [] cpuid.name = "C-bit location in page table entry" ->
           [success |-> TRUE, msg |-> << BitAnd(res.ebx, 31) >>]
      [] cpuid.name = "Number of encrypted guests supported simultaneously" ->
           [success |-> TRUE, msg |-> << res.ecx >>]
      [] cpuid.name = "Minimum ASID value for SEV-enabled, SEV-ES disabled guest" ->
           [success |-> TRUE, msg |-> << res.edx >>]
      [] cpuid.name = "AMD SEV-ES" ->
           [success |-> BitAnd(res.eax, Shl(1, 3)) # 0, msg |-> <<>>]

\* CpuId::execute: msg is "name" or "name: m", kept as <<name>> or <<name, m>>.
execute(cpuid) ==
    LET r == func(cpuid, cpuid_insn(cpuid.leaf))
    IN  [success |-> r.success, msg |-> <<cpuid.name>> \o r.msg]

(***************************************************************************)
(* The operating-system tests                                              *)
(***************************************************************************)
dev_sev_rw(mode) ==
    IF mode \in os.dev_sev
    THEN [success |-> TRUE, msg |-> "Readable"]
    ELSE [success |-> FALSE, msg |-> "Error (Permission denied)"]

dev_sev_r ==
    LET r == dev_sev_rw("read")
    IN  IF r.success
        THEN [success |-> TRUE, msg |-> <<"/dev/sev readable">>]
        ELSE [success |-> FALSE, msg |-> <<"/dev/sev not readable", r.msg>>]

dev_sev_w ==
    LET r == dev_sev_rw("write")
    IN  IF r.success
        THEN [success |-> TRUE, msg |-> <<"/dev/sev writable">>]
        ELSE [success |-> FALSE, msg |-> <<"/dev/sev not writable", r.msg>>]

has_kvm_support ==
    IF ~os.dev_kvm
    THEN [success |-> FALSE, msg |-> <<"KVM probing error while reading /dev/kvm">>]
    ELSE IF os.kvm_api_version < 0
         THEN [success |-> FALSE,
               msg |-> <<"KVM probing error: accessing KVM device node failed">>]
         ELSE [success |-> TRUE, msg |-> <<"KVM API version", os.kvm_api_version>>]

sev_enabled_in_kvm ==
    IF ~os.kvm_amd_sev.exists
    THEN [success |-> FALSE,
          msg |-> <<"Error checking if SEV is enabled in KVM: does not exist">>]
    ELSE IF ~os.kvm_amd_sev.readable
         THEN [success |-> FALSE,
               msg |-> <<"Error checking if SEV is enabled in KVM (unable to read)">>]
         ELSE IF trim(os.kvm_amd_sev.contents) = <<"1">>
              THEN [success |-> TRUE, msg |-> <<"SEV enabled in KVM">>]
              ELSE [success |-> FALSE,
                    msg |-> <<"Error checking if SEV is enabled in KVM (contents read)">>
                            \o trim(os.kvm_amd_sev.contents)]

memlock_rlimit ==
    IF os.getrlimit = 0
    THEN [success |-> TRUE, msg |-> <<"memlock resource limits">>]
    ELSE [success |-> FALSE, msg |-> <<"Unable to get memlock resource limits">>]

\* Calling the boxed closure of a SystemTest.
call_sys_test(t) ==
    CASE t.func = "dev_sev_r" -> dev_sev_r
      [] t.func = "dev_sev_w" -> dev_sev_w
      [] t.func = "has_kvm_support" -> has_kvm_support
      [] t.func = "sev_enabled_in_kvm" -> sev_enabled_in_kvm
      [] t.func = "memlock_rlimit" -> memlock_rlimit

(***************************************************************************)
(* Catalog builder                                                         *)
(***************************************************************************)
\* Mutation: the tier-4 list is placed before the tier-3 list.
collect_cpuids_Misordered(gen) ==
    LET c_vec == << CORE_CPUID, AMD_CPU_DEPENDENT_CPUIDS,
                    SEV_SME_DEPENDENT_CPUIDS, MICROCODE_DEPENDENT_CPUIDS >>
    IN  IF gen = "Es" THEN Append(c_vec, SEV_ES_CPUIDS) ELSE c_vec

collect_cpuids(gen) ==
    LET c_vec == << CORE_CPUID, AMD_CPU_DEPENDENT_CPUIDS,
                    MICROCODE_DEPENDENT_CPUIDS, SEV_SME_DEPENDENT_CPUIDS >>
    IN  IF gen = "Es" THEN Append(c_vec, SEV_ES_CPUIDS) ELSE c_vec

\* Mutation: no generation defaults to plain SEV.
cpuid_vec_of_DefaultSev(gen) ==
    IF gen = "None" THEN collect_cpuids("Sev") ELSE collect_cpuids(gen)

\* match gen { Some(g) => collect_cpuids(g), None => collect_cpuids(Es) }
cpuid_vec_of(gen) ==
    IF gen = "None" THEN collect_cpuids("Es") ELSE collect_cpuids(gen)

(***************************************************************************)
(* Reporter                                                                *)
(***************************************************************************)
get_align_level(level) ==
    CASE level = 1 -> " "
      [] level = 2 -> " - "
      [] level = 3 -> "   - "
      [] level = 4 -> "     - "
      [] OTHER -> "       - "

emit_result(out, success, msg, level) ==
    Append(out, [res_v |-> IF success THEN "OK" ELSE "FAIL",
                 align |-> get_align_level(level), msg |-> msg, level |-> level])

emit_skip(out, msg, level) ==
    Append(out, [res_v |-> "SKIP",
                 align |-> get_align_level(level), msg |-> msg, level |-> level])

(***************************************************************************)
(* cmd(gen, quiet): the locals of one run                                  *)
(*   pc          position in cmd                                           *)
(*   passed      the flag of line 143                                      *)
(*   cpuid_vec   the collected catalog; list, idx: the two loop cursors    *)
(*   calls       names of the check functions invoked so far (history)     *)
(*   out         lines handed to emit_result / emit_skip                   *)
(*   status      per probe, the branch cmd took for it (history)           *)
(*   ret         the value cmd returned                                    *)
(***************************************************************************)
InitRun(gen, quiet) ==
    [gen |-> gen, quiet |-> quiet, pc |-> "collect", passed |-> TRUE,
     cpuid_vec |-> <<>>, list |-> 0, idx |-> 0,
     calls |-> <<>>, out |-> <<>>, status |-> <<>>,
     ret |-> [tag |-> "none", error |-> NoError]]

Outcome(name, st, level, list) ==
    [name |-> name, status |-> st, level |-> level, list |-> list]

\* lines 145-162
CollectTests(r, r2) ==
    /\ r.pc = "collect"
    /\ r2 = [r EXCEPT !.cpuid_vec = cpuid_vec_of(r.gen), !.list = 1, !.pc = "cpu_list"]

\* Mutation: the branch of a list no longer looks at passed.
EnterList_NoGate(r, r2) ==
    /\ r.pc = "cpu_list"
    /\ r.list <= Len(r.cpuid_vec)
    /\ r2 = [r EXCEPT !.idx = 1, !.pc = "cpu_exec"]

\* lines 165-166, 176: the next list of cpuid_vec and its branch
EnterList(r, r2) ==
    /\ r.pc = "cpu_list"
    /\ r.list <= Len(r.cpuid_vec)
    /\ r2 = [r EXCEPT !.idx = 1, !.pc = IF r.passed THEN "cpu_exec" ELSE "cpu_skip"]

\* the inner `for cpuid in list` moving to its next element, or ending
NextCpuid(r) ==
    IF r.idx < Len(r.cpuid_vec[r.list])
    THEN [r EXCEPT !.idx = r.idx + 1]
    ELSE [r EXCEPT !.idx = 0, !.list = r.list + 1, !.pc = "cpu_list"]

\* Mutation: passed is assigned the outcome of the probe.
ExecuteCpuid_Assign(r, r2) ==
    /\ r.pc = "cpu_exec"
    /\ LET cpuid == r.cpuid_vec[r.list][r.idx]
           e == execute(cpuid)
       IN  r2 = [NextCpuid(r) EXCEPT
                   !.calls = Append(r.calls, cpuid.name),
                   !.passed = e.success,
                   !.out = IF ~r.quiet THEN emit_result(r.out, e.success, e.msg, cpuid.level)
                           ELSE r.out,
                   !.status = Append(r.status,
                                Outcome(cpuid.name, IF e.success THEN "Pass" ELSE "Fail",
                                        cpuid.level, r.list))]

\* Mutation: the flag is updated inside the `if !quiet` block.
ExecuteCpuid_QuietFlag(r, r2) ==
    /\ r.pc = "cpu_exec"
    /\ LET cpuid == r.cpuid_vec[r.list][r.idx]
           e == execute(cpuid)
       IN  r2 = [NextCpuid(r) EXCEPT
                   !.calls = Append(r.calls, cpuid.name),
                   !.passed = IF ~e.success /\ ~r.quiet THEN FALSE ELSE r.passed,
                   !.out = IF ~r.quiet THEN emit_result(r.out, e.success, e.msg, cpuid.level)
                           ELSE r.out,
                   !.status = Append(r.status,
                                Outcome(cpuid.name, IF e.success THEN "Pass" ELSE "Fail",
                                        cpuid.level, r.list))]

\* Mutation: a failed probe is executed a second time.
ExecuteCpuid_Retry(r, r2) ==
    /\ r.pc = "cpu_exec"
    /\ LET cpuid == r.cpuid_vec[r.list][r.idx]
           e == execute(cpuid)
       IN  r2 = [NextCpuid(r) EXCEPT
                   !.calls = IF e.success THEN Append(r.calls, cpuid.name)
                             ELSE r.calls \o <<cpuid.name, cpuid.name>>,
                   !.passed = IF ~e.success THEN FALSE ELSE r.passed,
                   !.out = IF ~r.quiet THEN emit_result(r.out, e.success, e.msg, cpuid.level)
                           ELSE r.out,
                   !.status = Append(r.status,
                                Outcome(cpuid.name, IF e.success THEN "Pass" ELSE "Fail",
                                        cpuid.level, r.list))]

\* Mutation: cmd returns as soon as a probe fails.
ExecuteCpuid_EarlyReturn(r, r2) ==
    /\ r.pc = "cpu_exec"
    /\ LET cpuid == r.cpuid_vec[r.list][r.idx]
           e == execute(cpuid)
       IN  r2 = [NextCpuid(r) EXCEPT
                   !.pc = IF ~e.success THEN "ret" ELSE @,
                   !.calls = Append(r.calls, cpuid.name),
                   !.passed = IF ~e.success THEN FALSE ELSE r.passed,
                   !.out = IF ~r.quiet THEN emit_result(r.out, e.success, e.msg, cpuid.level)
                           ELSE r.out,
                   !.status = Append(r.status,
                                Outcome(cpuid.name, IF e.success THEN "Pass" ELSE "Fail",
                                        cpuid.level, r.list))]

\* Mutation: the execute/skip decision is taken per probe, so a failure
\* skips the rest of the failing probe's own list.
ExecuteCpuid_PerProbeGate(r, r2) ==
    /\ r.pc = "cpu_exec"
    /\ LET cpuid == r.cpuid_vec[r.list][r.idx]
           e == execute(cpuid)
       IN  r2 = [NextCpuid(r) EXCEPT
                   !.pc = IF ~e.success /\ r.idx < Len(r.cpuid_vec[r.list])
                          THEN "cpu_skip" ELSE @,
                   !.calls = Append(r.calls, cpuid.name),
                   !.passed = IF ~e.success THEN FALSE ELSE r.passed,
                   !.out = IF ~r.quiet THEN emit_result(r.out, e.success, e.msg, cpuid.level)
                           ELSE r.out,
                   !.status = Append(r.status,
                                Outcome(cpuid.name, IF e.success THEN "Pass" ELSE "Fail",
                                        cpuid.level, r.list))]

\* lines 167-175
ExecuteCpuid(r, r2) ==
    /\ r.pc = "cpu_exec"
    /\ LET cpuid == r.cpuid_vec[r.list][r.idx]
           e == execute(cpuid)
       IN  r2 = [NextCpuid(r) EXCEPT
                   !.calls = Append(r.calls, cpuid.name),
                   !.passed = IF ~e.success THEN FALSE ELSE r.passed,
                   !.out = IF ~r.quiet THEN emit_result(r.out, e.success, e.msg, cpuid.level)
                           ELSE r.out,
                   !.status = Append(r.status,
                                Outcome(cpuid.name, IF e.success THEN "Pass" ELSE "Fail",
                                        cpuid.level, r.list))]

\* Mutation: the skip branch calls execute to obtain the message.
SkipCpuid_Executes(r, r2) ==
    /\ r.pc = "cpu_skip"
    /\ LET cpuid == r.cpuid_vec[r.list][r.idx]
       IN  r2 = [NextCpuid(r) EXCEPT
                   !.calls = Append(r.calls, cpuid.name),
                   !.out = IF ~r.quiet
                           THEN emit_skip(r.out, execute(cpuid).msg, cpuid.level)
                           ELSE r.out,
                   !.status = Append(r.status,
                                Outcome(cpuid.name, "Skip", cpuid.level, r.list))]

\* lines 177-181
SkipCpuid(r, r2) ==
    /\ r.pc = "cpu_skip"
    /\ LET cpuid == r.cpuid_vec[r.list][r.idx]
       IN  r2 = [NextCpuid(r) EXCEPT
                   !.out = IF ~r.quiet THEN emit_skip(r.out, <<cpuid.name>>, cpuid.level)
                           ELSE r.out,
                   !.status = Append(r.status,
                                Outcome(cpuid.name, "Skip", cpuid.level, r.list))]

\* Mutation: the system tests are not gated on passed.
EnterSysTests_NoGate(r, r2) ==
    /\ r.pc = "cpu_list"
    /\ r.list > Len(r.cpuid_vec)
    /\ r2 = [r EXCEPT !.idx = 1, !.pc = "sys_exec"]

\* Mutation: the two branches of the system-test gate are exchanged.
EnterSysTests_Inverted(r, r2) ==
    /\ r.pc = "cpu_list"
    /\ r.list > Len(r.cpuid_vec)
    /\ r2 = [r EXCEPT !.idx = 1, !.pc = IF r.passed THEN "sys_skip" ELSE "sys_exec"]

\* lines 186, 196: the gate of the system tests
EnterSysTests(r, r2) ==
    /\ r.pc = "cpu_list"
    /\ r.list > Len(r.cpuid_vec)
    /\ r2 = [r EXCEPT !.idx = 1, !.pc = IF r.passed THEN "sys_exec" ELSE "sys_skip"]

NextSysTest(r) ==
    IF r.idx < Len(sys_tests)
    THEN [r EXCEPT !.idx = r.idx + 1]
    ELSE [r EXCEPT !.idx = 0, !.pc = "ret"]

\* Mutation: a failed system test gates the system tests after it.
ExecuteSysTest_Gating(r, r2) ==
    /\ r.pc = "sys_exec"
    /\ LET t == sys_tests[r.idx]
           e == call_sys_test(t)
       IN  r2 = [NextSysTest(r) EXCEPT
                   !.pc = IF ~e.success /\ r.idx < Len(sys_tests) THEN "sys_skip" ELSE @,
                   !.calls = Append(r.calls, t.func_name),
                   !.out = IF ~r.quiet THEN emit_result(r.out, e.success, e.msg, SYS_TEST_LEVEL)
                           ELSE r.out,
                   !.passed = IF ~e.success THEN FALSE ELSE r.passed,
                   !.status = Append(r.status,
                                Outcome(t.func_name, IF e.success THEN "Pass" ELSE "Fail",
                                        SYS_TEST_LEVEL, Len(r.cpuid_vec) + 1))]

\* Mutation: a failed system test does not clear passed.
ExecuteSysTest_NoFlag(r, r2) ==
    /\ r.pc = "sys_exec"
    /\ LET t == sys_tests[r.idx]
           e == call_sys_test(t)
       IN  r2 = [NextSysTest(r) EXCEPT
                   !.calls = Append(r.calls, t.func_name),
                   !.out = IF ~r.quiet THEN emit_result(r.out, e.success, e.msg, SYS_TEST_LEVEL)
                           ELSE r.out,
                   !.status = Append(r.status,
                                Outcome(t.func_name, IF e.success THEN "Pass" ELSE "Fail",
                                        SYS_TEST_LEVEL, Len(r.cpuid_vec) + 1))]

\* lines 187-195
ExecuteSysTest(r, r2) ==
    /\ r.pc = "sys_exec"
    /\ LET t == sys_tests[r.idx]
           e == call_sys_test(t)
       IN  r2 = [NextSysTest(r) EXCEPT
                   !.calls = Append(r.calls, t.func_name),
                   !.out = IF ~r.quiet THEN emit_result(r.out, e.success, e.msg, SYS_TEST_LEVEL)
                           ELSE r.out,
                   !.passed = IF ~e.success THEN FALSE ELSE r.passed,
                   !.status = Append(r.status,
                                Outcome(t.func_name, IF e.success THEN "Pass" ELSE "Fail",
                                        SYS_TEST_LEVEL, Len(r.cpuid_vec) + 1))]

\* Mutation: skipped system tests are not reported.
SkipSysTest_Silent(r, r2) ==
    /\ r.pc = "sys_skip"
    /\ LET t == sys_tests[r.idx]
       IN  r2 = [NextSysTest(r) EXCEPT
                   !.status = Append(r.status,
                                Outcome(t.func_name, "Skip", SYS_TEST_LEVEL,
                                        Len(r.cpuid_vec) + 1))]

\* lines 197-201
SkipSysTest(r, r2) ==
    /\ r.pc = "sys_skip"
    /\ LET t == sys_tests[r.idx]
       IN  r2 = [NextSysTest(r) EXCEPT
                   !.out = IF ~r.quiet THEN emit_skip(r.out, <<t.func_name>>, SYS_TEST_LEVEL)
                           ELSE r.out,
                   !.status = Append(r.status,
                                Outcome(t.func_name, "Skip", SYS_TEST_LEVEL,
                                        Len(r.cpuid_vec) + 1))]

\* lines 204-211
Return(r, r2) ==
    /\ r.pc = "ret"
    /\ r2 = [r EXCEPT !.pc = "done",
                      !.ret = IF r.passed THEN [tag |-> "Ok", error |-> NoError]
                              ELSE [tag |-> "Err", error |-> ErrorValue]]

(***************************************************************************)
(* Inputs                                                                  *)
(***************************************************************************)
Chars4(a, b, c, d) == <<a, b, c, d>>

Sp4 == Chars4(" ", " ", " ", " ")

VendorSamples ==
    { [eax |-> 13, ebx |-> Chars4("A","u","t","h"), edx |-> Chars4("e","n","t","i"),
       ecx |-> Chars4("c","A","M","D")],
      [eax |-> 13, ebx |-> Chars4("G","e","n","u"), edx |-> Chars4("i","n","e","I"),
       ecx |-> Chars4("n","t","e","l")] }

BrandSamples ==
    { << [eax |-> Chars4("A","M","D"," "), ebx |-> Chars4("E","P","Y","C"),
          ecx |-> Chars4(" ","7","5","4"), edx |-> Chars4("3"," ","3","2")],
         [eax |-> Chars4("-","C","o","r"), ebx |-> Chars4("e"," ","P","r"),
          ecx |-> Chars4("o","c","e","s"), edx |-> Chars4("s","o","r"," ")],
         [eax |-> Sp4, ebx |-> Sp4, ecx |-> Sp4, edx |-> Sp4] >>,
      << [eax |-> Chars4("A","M","D"," "), ebx |-> Chars4("R","y","z","e"),
          ecx |-> Chars4("n"," ","9"," "), edx |-> Chars4("5","9","5","0")],
         [eax |-> Chars4("X"," ","1","6"), ebx |-> Chars4("-","C","o","r"),
          ecx |-> Chars4("e"," ","P","r"), edx |-> Chars4("o","c","."," ")],
         [eax |-> Sp4, ebx |-> Sp4, ecx |-> Sp4, edx |-> Sp4] >> }

\* leaf 0x8000001f: EAX bits 0..3 are SME, SEV, page flush MSR, SEV-ES
MaxEax == 15

EbxSamples == {367, 2661}

EcxSamples == {509}

EdxSamples == {1}

SevLeafSamples ==
    [eax : 0..MaxEax, ebx : EbxSamples, ecx : EcxSamples, edx : EdxSamples]

HwSamples ==
    { (LEAF_VENDOR :> v) @@ (LEAF_BRAND2 :> b[1]) @@ (LEAF_BRAND3 :> b[2])
        @@ (LEAF_BRAND4 :> b[3]) @@ (LEAF_SEV :> s) :
      v \in VendorSamples, b \in BrandSamples, s \in SevLeafSamples }

OsSamples ==
    [dev_sev : SUBSET {"read", "write"},
     dev_kvm : {TRUE},
     kvm_api_version : {12, -1},
     kvm_amd_sev : { [exists |-> TRUE, readable |-> TRUE, contents |-> <<"1", "\n">>],
                     [exists |-> TRUE, readable |-> TRUE, contents |-> <<"0", "\n">>] },
     getrlimit : {0, -1}]

GenArgs == {"None"} \cup SevGeneration

(***************************************************************************)
(* One run of cmd                                                          *)
(***************************************************************************)
Init ==
    /\ hw \in HwSamples
    /\ os \in OsSamples
    /\ \E gen \in GenArgs, quiet \in BOOLEAN :
          /\ run = InitRun(gen, quiet)
          /\ twin = InitRun(gen, ~quiet)

Collect == CollectTests(run, run') /\ UNCHANGED <<hw, os, twin>>

List == EnterList(run, run') /\ UNCHANGED <<hw, os, twin>>

Execute == ExecuteCpuid(run, run') /\ UNCHANGED <<hw, os, twin>>

Skip == SkipCpuid(run, run') /\ UNCHANGED <<hw, os, twin>>

SysGate == EnterSysTests(run, run') /\ UNCHANGED <<hw, os, twin>>

SysExecute == ExecuteSysTest(run, run') /\ UNCHANGED <<hw, os, twin>>

SysSkip == SkipSysTest(run, run') /\ UNCHANGED <<hw, os, twin>>

Ret == Return(run, run') /\ UNCHANGED <<hw, os, twin>>

Next ==
    \/ Collect
    \/ List
    \/ Execute
    \/ Skip
    \/ SysGate
    \/ SysExecute
    \/ SysSkip
    \/ Ret

Spec == Init /\ [][Next]_vars

\* cmd is straight-line synchronous code: assuming every probe check returns,
\* the next statement of the run is always eventually executed.
SpecFair == Init /\ [][Next]_vars /\ WF_vars(Next)

(***************************************************************************)
(* Two runs on the same machine with the same generation, one quiet and    *)
(* one not, advancing in lockstep (used to compare what they execute).     *)
(***************************************************************************)
Step(r, r2) ==
    \/ CollectTests(r, r2)
    \/ EnterList(r, r2)
    \/ ExecuteCpuid(r, r2)
    \/ SkipCpuid(r, r2)
    \/ EnterSysTests(r, r2)
    \/ ExecuteSysTest(r, r2)
    \/ SkipSysTest(r, r2)
    \/ Return(r, r2)

PairCollect == CollectTests(run, run') /\ Step(twin, twin') /\ UNCHANGED <<hw, os>>

PairList == EnterList(run, run') /\ Step(twin, twin') /\ UNCHANGED <<hw, os>>

PairExecute == ExecuteCpuid(run, run') /\ Step(twin, twin') /\ UNCHANGED <<hw, os>>

PairSkip == SkipCpuid(run, run') /\ Step(twin, twin') /\ UNCHANGED <<hw, os>>

PairSysGate == EnterSysTests(run, run') /\ Step(twin, twin') /\ UNCHANGED <<hw, os>>

PairSysExecute == ExecuteSysTest(run, run') /\ Step(twin, twin') /\ UNCHANGED <<hw, os>>

PairSysSkip == SkipSysTest(run, run') /\ Step(twin, twin') /\ UNCHANGED <<hw, os>>

PairRet == Return(run, run') /\ Step(twin, twin') /\ UNCHANGED <<hw, os>>

PairNext ==
    \/ PairCollect
    \/ PairList
    \/ PairExecute
    \/ PairSkip
    \/ PairSysGate
    \/ PairSysExecute
    \/ PairSysSkip
    \/ PairRet

SpecPair == Init /\ [][PairNext]_vars

(***************************************************************************)
(* Vocabulary of the properties                                            *)
(***************************************************************************)
Done == run.pc = "done"

NStatus == Len(run.status)

InCpuPhase(k) == run.status[k].list <= Len(run.cpuid_vec)

InSysPhase(k) == run.status[k].list = Len(run.cpuid_vec) + 1

St(k) == run.status[k].status

Called(name) == \E c \in 1..Len(run.calls) : run.calls[c] = name

CpuFailed == \E k \in 1..NStatus : InCpuPhase(k) /\ St(k) = "Fail"

AnyFailed == \E k \in 1..NStatus : St(k) = "Fail"

RECURSIVE Flatten(_)
Flatten(lists) == IF lists = <<>> THEN <<>> ELSE Head(lists) \o Flatten(Tail(lists))

Level4Count(lists) ==
    Cardinality({k \in 1..Len(Flatten(lists)) : Flatten(lists)[k].level = 4})

SysNames == [k \in 1..Len(sys_tests) |-> sys_tests[k].func_name]

StatusNames == [k \in 1..NStatus |-> run.status[k].name]

ResV(st) == CASE st = "Pass" -> "OK" [] st = "Fail" -> "FAIL" [] st = "Skip" -> "SKIP"

Tier1FailSequence(n4) ==
    << <<"Fail", 1>>, <<"Skip", 2>>, <<"Skip", 3>>, <<"Skip", 3>> >>
       \o [k \in 1..n4 |-> <<"Skip", 4>>]
       \o [k \in 1..5 |-> <<"Skip", SYS_TEST_LEVEL>>]

\* C2: if 'AMD CPU' fails then, for Sev and for Es, no other check function
\* is invoked, every later CPU probe and every OS probe is a Skip, the
\* sequence is [Fail 1, Skip 2, Skip 3 x2, Skip 4 x5 (Sev) or x6 (Es),
\* Skip OS x5], and cmd returns an error.
C2_Tier1FailureSkipsAll ==
    (NStatus >= 1 /\ St(1) = "Fail") =>
        /\ run.status[1].name = "AMD CPU"
        /\ run.calls = <<"AMD CPU">>
        /\ \A k \in 2..NStatus : St(k) = "Skip"
        /\ Done =>
             /\ [k \in 1..NStatus |-> <<St(k), run.status[k].level>>]
                  = Tier1FailSequence(IF run.gen = "Sev" THEN 5 ELSE 6)
             /\ ~run.quiet =>
                  [k \in 1..Len(run.out) |-> <<run.out[k].res_v, run.out[k].level>>]
                    = [k \in 1..NStatus |-> <<ResV(St(k)), run.status[k].level>>]
             /\ run.ret.tag = "Err"

C2_Witness ==
    /\ Done /\ run.gen = "Es" /\ ~run.quiet
    /\ St(1) = "Fail" /\ NStatus = 15 /\ St(15) = "Skip"

(***************************************************************************)
(* C3                                                                      *)
(***************************************************************************)
\* C3: the OS phase is gated as one block on the CPU phase: if any CPU probe
\* failed (in any group, the last included) no OS check function is invoked
\* and all five OS probes are Skip; if none failed all five are invoked.
C3_SysPhaseGatedAsBlock ==
    run.pc \in {"sys_exec", "sys_skip", "ret", "done"} =>
        IF CpuFailed
        THEN /\ \A t \in 1..Len(sys_tests) : ~Called(sys_tests[t].func_name)
             /\ \A k \in 1..NStatus : InSysPhase(k) => St(k) = "Skip"
             /\ Done => Cardinality({k \in 1..NStatus : InSysPhase(k)}) = 5
        ELSE /\ \A k \in 1..NStatus : InSysPhase(k) =>
                   (St(k) # "Skip" /\ Called(run.status[k].name))
             /\ Done => \A t \in 1..Len(sys_tests) : Called(sys_tests[t].func_name)

\* the only CPU failure is in the last group, and the OS phase was skipped
C3_Witness ==
    /\ Done /\ Len(run.cpuid_vec) = 5
    /\ \A k \in 1..NStatus : (InCpuPhase(k) /\ St(k) = "Fail") => run.status[k].list = 5
    /\ CpuFailed
    /\ \A k \in 1..NStatus : InSysPhase(k) => St(k) = "Skip"

(***************************************************************************)
(* C4                                                                      *)
(***************************************************************************)
OnlyDevSevReadFails ==
    /\ os.dev_sev = {"write"}
    /\ os.dev_kvm /\ os.kvm_api_version >= 0
    /\ os.kvm_amd_sev.exists /\ os.kvm_amd_sev.readable
    /\ trim(os.kvm_amd_sev.contents) = <<"1">>
    /\ os.getrlimit = 0

\* C4: when all CPU probes pass, OS probes do not gate each other: whatever
\* subset of them fails, each of the five is executed and is Pass or Fail,
\* in list order, and the verdict is an error as soon as one failed; if only
\* '/dev/sev readable' fails, '/dev/sev writable' still runs and there is
\* exactly one Fail, all others being Pass.
C4_SysTestsNotMutuallyGated ==
    (Done /\ ~CpuFailed) =>
        LET n == Len(Flatten(run.cpuid_vec))
        IN  /\ NStatus = n + 5
            /\ SubSeq(StatusNames, n + 1, n + 5) = SysNames
            /\ Len(run.calls) = n + 5
            /\ SubSeq(run.calls, n + 1, n + 5) = SysNames
            /\ \A k \in (n + 1)..(n + 5) : St(k) \in {"Pass", "Fail"}
            /\ AnyFailed => run.ret.tag = "Err"
            /\ OnlyDevSevReadFails =>
                 /\ St(n + 1) = "Fail"
                 /\ \A k \in 1..NStatus : k # n + 1 => St(k) = "Pass"
                 /\ Called("/dev/sev writable")
                 /\ run.ret.tag = "Err"

C4_Witness ==
    /\ Done /\ ~CpuFailed /\ OnlyDevSevReadFails
    /\ Cardinality({k \in 1..NStatus : St(k) = "Fail"}) = 1
    /\ Called("/dev/sev writable")

(***************************************************************************)
(* C5                                                                      *)
(***************************************************************************)
\* C5: the aggregate (passed) is true exactly while no probe has failed
\* (true at the start, false from the first failure on, untouched by skips);
\* cmd returns Ok(()) iff zero probes failed, and otherwise one error value
\* that carries only the fixed message.
C5_VerdictIffNoFail ==
    /\ run.passed <=> ~AnyFailed
    /\ ~Done => run.ret.tag = "none"
    /\ Done => /\ run.ret.tag \in {"Ok", "Err"}
               /\ run.ret.tag = "Ok" <=> ~AnyFailed
               /\ run.ret.error = IF AnyFailed THEN ErrorValue ELSE NoError

C5_Witness ==
    /\ Done /\ run.ret.tag = "Err"
    /\ \E k \in 1..NStatus : InSysPhase(k) /\ St(k) = "Fail"
    /\ ~CpuFailed

(***************************************************************************)
(* C6                                                                      *)
(***************************************************************************)
\* C6: in a non-quiet run every probe of every CPU group and of the OS phase
\* is reported exactly once (Pass, Fail or Skip): the emit_result/emit_skip
\* calls are, one for one and in order, the probes of the catalog followed
\* by the five OS probes.
C6_EveryProbeReportedOnce ==
    ~run.quiet =>
        /\ Len(run.out) = NStatus
        /\ \A k \in 1..NStatus :
             /\ run.out[k].res_v = ResV(St(k))
             /\ run.out[k].level = run.status[k].level
             /\ (InCpuPhase(k) \/ St(k) = "Skip") => run.out[k].msg[1] = run.status[k].name
        /\ Done =>
             /\ StatusNames
                  = [k \in 1..Len(Flatten(run.cpuid_vec)) |-> Flatten(run.cpuid_vec)[k].name]
                      \o SysNames
             /\ Len(run.out) = Len(Flatten(run.cpuid_vec)) + Len(sys_tests)

C6_Witness ==
    /\ Done /\ ~run.quiet /\ Len(run.out) = 15
    /\ \E k \in 1..NStatus : St(k) = "Skip"
    /\ \E k \in 1..NStatus : St(k) = "Pass"

(***************************************************************************)
(* C7                                                                      *)
(***************************************************************************)
QuietRun == IF run.quiet THEN run ELSE twin

LoudRun == IF run.quiet THEN twin ELSE run

\* C7: for the same generation and the same probe outcomes, the quiet run
\* and the non-quiet run execute the same probes in the same order and
\* return the same verdict, and the quiet run makes no Reporter call.
C7_QuietDoesNotInterfere ==
    /\ QuietRun.out = <<>>
    /\ QuietRun.pc = LoudRun.pc
    /\ QuietRun.calls = LoudRun.calls
    /\ QuietRun.passed = LoudRun.passed
    /\ QuietRun.ret = LoudRun.ret

C7_Witness ==
    /\ QuietRun.pc = "done" /\ LoudRun.pc = "done"
    /\ LoudRun.ret.tag = "Err"
    /\ Len(LoudRun.out) = 15 /\ Len(QuietRun.calls) >= 4

(***************************************************************************)
(* C8                                                                      *)
(***************************************************************************)
\* C8: in one run each check function is invoked at most once; a failed
\* probe is not retried.
C8_EachCheckInvokedAtMostOnce ==
    \A j \in 1..Len(run.calls) : \A k \in 1..Len(run.calls) :
        run.calls[j] = run.calls[k] => j = k

C8_Witness ==
    /\ Done /\ Len(run.calls) = 15
    /\ Cardinality({k \in 1..NStatus : St(k) = "Fail"}) >= 2

(***************************************************************************)
(* C9                                                                      *)
(***************************************************************************)
\* C9: the Es catalog is the Sev catalog followed by one more group holding
\* the single tier-4 probe 'AMD SEV-ES' (so exactly one more tier-4 probe);
\* cmd with no generation builds the Es catalog.
C9_EsCatalogOneMoreTier4 ==
    run.pc # "collect" =>
        /\ Len(collect_cpuids("Sev")) = 4
        /\ Level4Count(collect_cpuids("Sev")) = 5
        /\ run.gen = "Sev" =>
             /\ run.cpuid_vec = collect_cpuids("Sev")
        /\ run.gen \in {"Es", "None"} =>
             /\ Len(run.cpuid_vec) = 5
             /\ SubSeq(run.cpuid_vec, 1, 4) = collect_cpuids("Sev")
             /\ Len(run.cpuid_vec[5]) = 1
             /\ run.cpuid_vec[5][1].name = "AMD SEV-ES"
             /\ run.cpuid_vec[5][1].level = 4
             /\ Level4Count(run.cpuid_vec) = Level4Count(collect_cpuids("Sev")) + 1
        /\ run.gen = "None" => run.cpuid_vec = collect_cpuids("Es")

C9_Witness ==
    /\ run.pc = "cpu_list" /\ run.gen = "None" /\ run.list = 1
    /\ Len(run.cpuid_vec) = 5

(***************************************************************************)
(* C10                                                                     *)
(***************************************************************************)
\* C10: DEGRADED is absorbing: once passed is false no step of the run, in
\* the CPU phase or in the OS phase, sets it back to true.
C10_DegradedIsAbsorbing == [][~run.passed => ~run'.passed]_vars

\* a probe passed after an earlier one had failed, and passed is still false
C10_Witness ==
    /\ ~run.passed
    /\ \E j \in 1..NStatus : \E k \in 1..NStatus :
          j < k /\ St(j) = "Fail" /\ St(k) = "Pass"

(***************************************************************************)
(* C11                                                                     *)
(***************************************************************************)
CatalogNames ==
    [k \in 1..Len(Flatten(run.cpuid_vec)) |-> Flatten(run.cpuid_vec)[k].name]

AllDetermined == StatusNames = CatalogNames \o SysNames

\* C11: every run of cmd eventually returns, and it returns (Ok or Err) only
\* after every probe of both phases has been executed or skipped, whatever
\* the outcomes of the probes.
C11_RunsToCompletion ==
    /\ <>Done
    /\ [](run.ret.tag # "none" => (Done /\ AllDetermined))

\* an error was returned after a failure in the first group, all 14 probes
\* of the Sev catalog and the OS phase having been determined
C11_Witness ==
    /\ Done /\ run.ret.tag = "Err" /\ run.gen = "Sev"
    /\ St(1) = "Fail" /\ NStatus = 14 /\ AllDetermined

(***************************************************************************)
(* C12                                                                     *)
(***************************************************************************)
\* C12: a Skip occurs only after a Fail earlier in the same run; a run in
\* which no probe fails has no Fail and no Skip, executes every probe of the
\* catalog and of the OS phase, and returns Ok(()).
C12_SkipOnlyAfterFail ==
    /\ \A k \in 1..NStatus :
         St(k) = "Skip" => \E j \in 1..NStatus : j < k /\ St(j) = "Fail"
    /\ (Done /\ ~AnyFailed) =>
         /\ \A k \in 1..NStatus : St(k) = "Pass"
         /\ run.calls = CatalogNames \o SysNames
         /\ ~run.quiet => \A k \in 1..Len(run.out) : run.out[k].res_v = "OK"
         /\ run.ret.tag = "Ok"

C12_Witness ==
    /\ Done /\ run.ret.tag = "Ok" /\ ~run.quiet
    /\ NStatus = 15 /\ Len(run.calls) = 15 /\ \A k \in 1..NStatus : St(k) = "Pass"

(***************************************************************************)
(* C13                                                                     *)
(***************************************************************************)
\* C13: the catalog is ordered by ascending dependency: its groups are
\* tier 1 (AMD CPU), tier 2 (Microcode support), tier 3 (AMD SEV, AMD SME),
\* tier 4 (five capability fields) and, for Es, the tier-4 SEV-ES group;
\* all probes of a group carry the same tier; the tiers handed to the
\* Reporter over a run (CPU phase, then OS phase at level 5) never decrease.
C13_CatalogAscendingTiers ==
    run.pc # "collect" =>
        /\ Len(run.cpuid_vec) \in {4, 5}
        /\ \A g \in 1..Len(run.cpuid_vec) : \A i \in 1..Len(run.cpuid_vec[g]) :
             run.cpuid_vec[g][i].level = <<1, 2, 3, 4, 4>>[g]
        /\ [i \in 1..Len(run.cpuid_vec[1]) |-> run.cpuid_vec[1][i].name] = <<"AMD CPU">>
        /\ [i \in 1..Len(run.cpuid_vec[2]) |-> run.cpuid_vec[2][i].name]
             = <<"Microcode support">>
        /\ [i \in 1..Len(run.cpuid_vec[3]) |-> run.cpuid_vec[3][i].name]
             = <<"AMD SEV", "AMD SME">>
        /\ Len(run.cpuid_vec[4]) = 5
        /\ Len(run.cpuid_vec) = 5 =>
             [i \in 1..Len(run.cpuid_vec[5]) |-> run.cpuid_vec[5][i].name] = <<"AMD SEV-ES">>
        /\ \A j \in 1..NStatus : \A k \in 1..NStatus :
             j < k => run.status[j].level <= run.status[k].level
        /\ \A k \in 1..NStatus : InSysPhase(k) => run.status[k].level = SYS_TEST_LEVEL
        /\ \A j \in 1..Len(run.out) : \A k \in 1..Len(run.out) :
             j < k => run.out[j].level <= run.out[k].level

C13_Witness ==
    /\ Done /\ ~run.quiet /\ run.gen = "Es" /\ Len(run.out) = 15
    /\ run.out[1].level = 1 /\ run.out[10].level = 4 /\ run.out[15].level = 5

(***************************************************************************)
(* C14                                                                     *)
(***************************************************************************)
FailedInEarlierList(k) ==
    \E j \in 1..NStatus :
        InCpuPhase(j) /\ run.status[j].list < run.status[k].list /\ St(j) = "Fail"

\* C14: the execute/skip decision of a CPU probe is taken once per group: a
\* CPU probe is executed iff no probe of a strictly earlier group failed; so
\* with the Es catalog a failure of 'Page flush MSR' (fourth group) leaves
\* the other four probes of that group executed and 'AMD SEV-ES' skipped.
C14_GateDecidedPerGroup ==
    /\ \A k \in 1..NStatus : InCpuPhase(k) =>
         /\ (St(k) \in {"Pass", "Fail"}) <=> ~FailedInEarlierList(k)
         /\ Called(run.status[k].name) <=> ~FailedInEarlierList(k)
    /\ (Done /\ Len(run.cpuid_vec) = 5 /\ St(5) = "Fail"
          /\ \A j \in 1..4 : St(j) = "Pass") =>
         /\ run.status[5].name = "Page flush MSR"
         /\ \A k \in 6..9 : St(k) = "Pass" /\ Called(run.status[k].name)
         /\ run.status[10].name = "AMD SEV-ES"
         /\ St(10) = "Skip"
         /\ ~Called("AMD SEV-ES")

C14_Witness ==
    /\ Done /\ Len(run.cpuid_vec) = 5
    /\ run.status[5].name = "Page flush MSR" /\ St(5) = "Fail"
    /\ \A k \in 6..9 : St(k) = "Pass"
    /\ run.status[10].name = "AMD SEV-ES" /\ St(10) = "Skip"

(***************************************************************************)
(* C15                                                                     *)
(***************************************************************************)
\* C15: the outcomes in catalog order have the shape (Pass|Fail)* Skip*:
\* once a probe has been skipped no later probe, of the CPU phase or of the
\* OS phase, is executed.
C15_NoOutcomeAfterSkip ==
    \A j \in 1..NStatus : \A k \in 1..NStatus :
        (j < k /\ St(j) = "Skip") =>
            (St(k) = "Skip" /\ ~Called(run.status[k].name))

C15_Witness ==
    /\ Done /\ St(1) = "Pass"
    /\ \E k \in 1..NStatus : St(k) = "Fail"
    /\ \E k \in 1..NStatus : InCpuPhase(k) /\ St(k) = "Skip"
    /\ St(NStatus) = "Skip"

(***************************************************************************)
(* C16                                                                     *)
(***************************************************************************)
\* C16: whatever EBX of leaf 0x8000001f holds, the field reported by the
\* 'Physical address bit reduction' probe is bits 11..6 of EBX shifted right
\* by 6, i.e. (ebx & 0b1111_1100_0000) >> 6.
C16_ReductionFieldIsBits11To6 ==
    \A k \in 1..Len(run.out) :
        (run.status[k].name = "Physical address bit reduction" /\ St(k) # "Skip") =>
            run.out[k].msg = << "Physical address bit reduction",
                                Shr(BitAnd(hw[LEAF_SEV].ebx, 4032), 6) >>

====
